---- MODULE Spec2Model ----
(***************************************************************************)
(* A model of aten/src/ATen/native/cudnn/ConvShared.cpp: the argument      *)
(* checks, the memory-format resolution, the allocation of results and the *)
(* dispatch to the raw cuDNN primitives for forward, backward-input,       *)
(* backward-weight, transposed and fused bias+activation convolutions.     *)
(*                                                                         *)
(* A tensor is a record: the buffer it lives in, its dtype, device, sizes, *)
(* memory layout and what its contents are.  A buffer id is a pair         *)
(* <<n, k>>: the k-th buffer allocated during call number n; the buffers   *)
(* the caller brings have n = 0.  Every dispatcher is an operator that     *)
(* returns the trace of what it did (checks, allocations, backend calls,   *)
(* the failure if any) together with its result.                           *)
(***************************************************************************)
EXTENDS Integers, Sequences, FiniteSets, TLC

VARIABLES ctx, build, ncalls, call, probe

vars == <<ctx, build, ncalls, call, probe>>

\* ------------------------------------------------------------------ bounds
MaxCalls == 2
MaxRank == 4
MaxLen == 3
MaxSize == 5
MaxKernel == 3
MaxStride == 3
MaxPadding == 2
MaxDilation == 2
MaxCapacity == 4

\* ----------------------------------------------------------------- tensors
Undefined ==
  [buf |-> <<0, 0>>, dtype |-> "Undefined", dev |-> -1, sizes |-> <<>>,
   fmt |-> "Undefined", data |-> "undefined"]

defined(t) == t.dtype # "Undefined"

RECURSIVE Prod(_)
Prod(s) == IF s = <<>> THEN 1 ELSE Head(s) * Prod(Tail(s))

numel(t) == Prod(t.sizes)

dim(t) == Len(t.sizes)

suggest_memory_format(t) == t.fmt

\* at::native::empty_cuda / at::empty: a fresh buffer, contents uninitialised
empty(sizes, dtype, dev, memory_format, id) ==
  [buf |-> id, dtype |-> dtype, dev |-> dev, sizes |-> sizes,
   fmt |-> memory_format, data |-> "uninitialized"]

\* at::native::zeros / at::zeros_like: a fresh buffer filled with zeros
zeros(sizes, dtype, dev, id) ==
  [buf |-> id, dtype |-> dtype, dev |-> dev, sizes |-> sizes,
   fmt |-> "Contiguous", data |-> "zeros"]

\* a layout exists only for the rank it is defined on
CanContig(t, memory_format) ==
  \/ memory_format = "Contiguous"
  \/ memory_format = "ChannelsLast" /\ dim(t) = 4
  \/ memory_format = "ChannelsLast3d" /\ dim(t) = 5

\* Tensor::contiguous(memory_format): the tensor itself when it already has
\* the layout, a copy in a fresh buffer otherwise
contiguous(t, memory_format, id) ==
  IF t.fmt = memory_format THEN t
  ELSE [t EXCEPT !.buf = id, !.fmt = memory_format]

\* the raw primitive writes its result into the output it is handed
written(t) == [t EXCEPT !.data = "computed"]

\* -------------------------------------------------------------- the traces
EvCheck(name, c) == [kind |-> "check", name |-> name, c |-> c]

EvAlloc(t) == [kind |-> "alloc", buf |-> t.buf, fmt |-> t.fmt, sizes |-> t.sizes]

EvFail(name, c) == [kind |-> "InvalidArgument", name |-> name, c |-> c]

EvBackend(prim, output, operands, z, alpha, bias, geom, flags) ==
  [kind |-> "backend", prim |-> prim, output |-> output, operands |-> operands,
   z |-> z, alpha |-> alpha, bias |-> bias, geom |-> geom, flags |-> flags]

Outcome(status, events, result, nb) ==
  [status |-> status, events |-> events, result |-> result, nb |-> nb]

Fail(events, name, c, nb) ==
  Outcome("fail", Append(events, EvFail(name, c)), Undefined, nb)

\* ------------------------------------------------------- ConvolutionParams
\* the padding, stride and dilation arrays of ConvolutionParams hold at least
\* the three spatial dimensions of the largest rank accepted; their capacity
\* is fixed by the header
MinCapacity == 3

DigitChar == <<"0", "1", "2", "3", "4", "5", "6", "7", "8", "9">>

\* the decimal digits of n >= 0, as the stream writes them
RECURSIVE Digits(_)
Digits(n) ==
  IF n < 10 THEN <<DigitChar[n + 1]>>
  ELSE Digits(n \div 10) \o <<DigitChar[(n % 10) + 1]>>

FormatInt(n) == IF n < 0 THEN <<"-">> \o Digits(-n) ELSE Digits(n)

RECURSIVE FormatEntries(_)
FormatEntries(a) ==
  IF a = <<>> THEN <<>>
  ELSE IF Len(a) = 1 THEN FormatInt(a[1])
  ELSE FormatInt(Head(a)) \o <<",", " ">> \o FormatEntries(Tail(a))

\* operator<< of ArrayRef<int>: [a, b, c]
FormatArrayRef(a) == <<"[">> \o FormatEntries(a) \o <<"]">>

FormatBool(b) == IF b THEN <<"true">> ELSE <<"false">>

getCudnnDataType(t) ==
  IF t.dtype = "Half" THEN "CUDNN_DATA_HALF" ELSE "CUDNN_DATA_FLOAT"

\* the dump writing only the input_dim - 2 entries in use, as repro_from_args
operator_out_of_rank(params) ==
  LET n == params.input_dim - 2
  IN <<<<"ConvolutionParams ">>,
       <<"    data_type = ", params.dataType>>,
       <<"    padding = ">> \o FormatArrayRef(SubSeq(params.padding, 1, n)),
       <<"    stride = ">> \o FormatArrayRef(SubSeq(params.stride, 1, n)),
       <<"    dilation = ">> \o FormatArrayRef(SubSeq(params.dilation, 1, n)),
       <<"    groups = ">> \o FormatInt(params.groups),
       <<"    deterministic = ">> \o FormatBool(params.deterministic),
       <<"    allow_tf32 = ">> \o FormatBool(params.allow_tf32)>>

\* operator<<(std::ostream&, const ConvolutionParams&): the lines written,
\* each a label followed by the characters of the value; ArrayRef<int>{array}
\* spans the whole array
operator_out(params) ==
  <<<<"ConvolutionParams ">>,
    <<"    data_type = ", params.dataType>>,
    <<"    padding = ">> \o FormatArrayRef(params.padding),
    <<"    stride = ">> \o FormatArrayRef(params.stride),
    <<"    dilation = ">> \o FormatArrayRef(params.dilation),
    <<"    groups = ">> \o FormatInt(params.groups),
    <<"    deterministic = ">> \o FormatBool(params.deterministic),
    <<"    allow_tf32 = ">> \o FormatBool(params.allow_tf32)>>

\* setConvolutionParams on arrays of the given capacity: everything zeroed,
\* then the first padding.size() entries of the three arrays filled
setConvolutionParams(capacity, input, weight, padding, stride, dilation, groups, deterministic, allow_tf32) ==
  [device_id |-> input.dev,
   dataType |-> getCudnnDataType(input),
   input_dim |-> dim(input),
   memory_format |-> suggest_memory_format(input),
   input_size |-> [i \in 1..(2 + capacity) |->
                     IF i <= dim(input) THEN input.sizes[i] ELSE 0],
   weight_size |-> [i \in 1..(2 + capacity) |->
                      IF i <= dim(input) THEN weight.sizes[i] ELSE 0],
   padding |-> [i \in 1..capacity |-> IF i <= Len(padding) THEN padding[i] ELSE 0],
   stride |-> [i \in 1..capacity |-> IF i <= Len(padding) THEN stride[i] ELSE 0],
   dilation |-> [i \in 1..capacity |-> IF i <= Len(padding) THEN dilation[i] ELSE 0],
   groups |-> groups,
   deterministic |-> deterministic,
   allow_tf32 |-> allow_tf32]

\* ------------------------------------------------------------------ checks
checkAllSameType(a, b) == a.dtype = b.dtype

checkAllSameGPU(a, b) == a.dev = b.dev

checkDimRange(t, dim_start, dim_end) == dim_start <= dim(t) /\ dim(t) < dim_end

checkSameDim(t1, t2) == dim(t1) = dim(t2)

\* size_t arithmetic: input->dim() - 2 is converted to an unsigned value, so
\* a negative difference wraps to a value above every length
SizeT(n) == IF n >= 0 THEN n ELSE 2147483647

\* check_args taking "greater than zero" literally: a zero entry is refused
check_args_refusing_zero(args, expected_size) ==
  IF ~(Len(args) <= expected_size) THEN "Too many values"
  ELSE IF ~(Len(args) >= expected_size) THEN "Not enough values"
  ELSE IF Cardinality({i \in DOMAIN args : args[i] <= 0}) > 0
       THEN "should be greater than zero"
       ELSE "ok"

\* check_args: "ok", or the check that fails
check_args(args, expected_size) ==
  IF ~(Len(args) <= expected_size) THEN "Too many values"
  ELSE IF ~(Len(args) >= expected_size) THEN "Not enough values"
  ELSE IF Cardinality({i \in DOMAIN args : args[i] < 0}) > 0
       THEN "should be greater than zero"
       ELSE "ok"

\* convolution_shape_check leaving the rank of output unchecked
shape_check_ignoring_output(input, weight, output, padding, stride, dilation, groups) ==
  LET p == check_args(padding, SizeT(dim(input) - 2))
      s == check_args(stride, Len(padding))
      d == check_args(dilation, Len(padding))
  IN IF p # "ok" THEN p
     ELSE IF s # "ok" THEN s
     ELSE IF d # "ok" THEN d
     ELSE IF ~checkDimRange(input, 3, 6) THEN "checkDimRange"
     ELSE IF dim(weight) < 2 THEN "size: dimension out of range"
     ELSE IF input.sizes[2] # weight.sizes[2] * groups
          THEN "checkSize"
     ELSE IF ~checkSameDim(input, weight) THEN "checkSameDim weight"
     ELSE "ok"

\* convolution_shape_check: "ok", or the first check that fails.  Dimension
\* indices are zero-based in the source: size(1) is sizes[2] here.
convolution_shape_check(input, weight, output, padding, stride, dilation, groups) ==
  LET p == check_args(padding, SizeT(dim(input) - 2))
      s == check_args(stride, Len(padding))
      d == check_args(dilation, Len(padding))
  IN IF p # "ok" THEN p
     ELSE IF s # "ok" THEN s
     ELSE IF d # "ok" THEN d
     ELSE IF ~checkDimRange(input, 3, 6) THEN "checkDimRange"
     ELSE IF dim(weight) < 2 THEN "size: dimension out of range"
     ELSE IF input.sizes[2] # weight.sizes[2] * groups
          THEN "checkSize"
     ELSE IF ~checkSameDim(input, weight) THEN "checkSameDim weight"
     ELSE IF ~checkSameDim(input, output) THEN "checkSameDim output"
     ELSE "ok"

\* --------------------------------------------------- layout and geometry
\* channels-last only when both operands already favour it
cudnn_conv_suggest_memory_format(input, weight) ==
  IF input.fmt = "ChannelsLast" /\ weight.fmt = "ChannelsLast" THEN "ChannelsLast"
  ELSE IF input.fmt = "ChannelsLast3d" /\ weight.fmt = "ChannelsLast3d"
       THEN "ChannelsLast3d"
       ELSE "Contiguous"

\* an unchecked read of an array: past its end it yields whatever is there
At(s, i, g) == IF i \in DOMAIN s THEN s[i] ELSE g

\* floor((in + 2*pad - dilation*(kernel-1) - 1) / stride) + 1 per spatial dim
conv_output_size(input_size, weight_size, padding, stride, dilation, g) ==
  [d \in 1..Len(input_size) |->
     IF d = 1 THEN input_size[1]
     ELSE IF d = 2 THEN At(weight_size, 1, g)
     ELSE (input_size[d] + 2 * At(padding, d - 2, g)
             - At(dilation, d - 2, g) * (At(weight_size, d, g) - 1) - 1)
            \div At(stride, d - 2, g) + 1]

\* (out-1)*stride - 2*pad + dilation*(kernel-1) + output_padding + 1
conv_input_size(output_size, weight_size, padding, output_padding, stride, dilation, groups, g) ==
  [d \in 1..Len(output_size) |->
     IF d = 1 THEN output_size[1]
     ELSE IF d = 2 THEN At(weight_size, 2, g) * groups
     ELSE (output_size[d] - 1) * At(stride, d - 2, g) - 2 * At(padding, d - 2, g)
            + At(dilation, d - 2, g) * (At(weight_size, d, g) - 1)
            + At(output_padding, d - 2, g) + 1]

Negative(sizes) == \E d \in DOMAIN sizes : sizes[d] < 0

Geom(padding, stride, dilation, groups) ==
  [padding |-> padding, stride |-> stride, dilation |-> dilation, groups |-> groups]

\* the forward dispatcher without its zero-element short-circuit
forward_without_short_circuit(c, input, weight, padding, stride, dilation, groups, flags, g, no, nb) ==
  LET e1 == <<EvCheck("checkAllSameType", c)>>
      e2 == Append(e1, EvCheck("checkAllSameGPU", c))
      memory_format == cudnn_conv_suggest_memory_format(input, weight)
      osize == conv_output_size(input.sizes, weight.sizes, padding, stride, dilation, g)
      output_t == empty(osize, input.dtype, input.dev, memory_format, <<no, nb>>)
      e3 == Append(e2, EvAlloc(output_t))
      e4 == Append(e3, EvCheck("convolution_shape_check", c))
      chk == convolution_shape_check(input, weight, output_t, padding, stride, dilation, groups)
      weight_contig == contiguous(weight, memory_format, <<no, nb + 1>>)
      input_contig == contiguous(input, memory_format, <<no, nb + 2>>)
      e5 == Append(e4, EvBackend("forward", output_t, <<input_contig, weight_contig>>,
                                 Undefined, 0, Undefined,
                                 Geom(padding, stride, dilation, groups), flags))
  IN IF ~checkAllSameType(input, weight) THEN Fail(e1, "checkAllSameType", c, nb)
     ELSE IF ~checkAllSameGPU(input, weight) THEN Fail(e2, "checkAllSameGPU", c, nb)
     ELSE IF Negative(osize) THEN Fail(e2, "empty_cuda", c, nb)
     ELSE IF chk # "ok" THEN Fail(e4, chk, c, nb + 1)
     ELSE Outcome("ok", e5, written(output_t), nb + 3)

\* -------------------------------------------------------------- forward
cudnn_convolution_forward(c, input, weight, padding, stride, dilation, groups, flags, g, no, nb) ==
  LET e1 == <<EvCheck("checkAllSameType", c)>>
      e2 == Append(e1, EvCheck("checkAllSameGPU", c))
      memory_format == cudnn_conv_suggest_memory_format(input, weight)
      osize == conv_output_size(input.sizes, weight.sizes, padding, stride, dilation, g)
      output_t == empty(osize, input.dtype, input.dev, memory_format, <<no, nb>>)
      e3 == Append(e2, EvAlloc(output_t))
      e4 == Append(e3, EvCheck("convolution_shape_check", c))
      chk == convolution_shape_check(input, weight, output_t, padding, stride, dilation, groups)
      weight_contig == contiguous(weight, memory_format, <<no, nb + 1>>)
      input_contig == contiguous(input, memory_format, <<no, nb + 2>>)
      e5 == Append(e4, EvBackend("forward", output_t, <<input_contig, weight_contig>>,
                                 Undefined, 0, Undefined,
                                 Geom(padding, stride, dilation, groups), flags))
  IN IF ~checkAllSameType(input, weight) THEN Fail(e1, "checkAllSameType", c, nb)
     ELSE IF ~checkAllSameGPU(input, weight) THEN Fail(e2, "checkAllSameGPU", c, nb)
     ELSE IF Negative(osize) THEN Fail(e2, "empty_cuda", c, nb)
     ELSE IF numel(output_t) = 0 THEN Outcome("ok", e3, output_t, nb + 1)
     ELSE IF chk # "ok" THEN Fail(e4, chk, c, nb + 1)
     ELSE Outcome("ok", e5, written(output_t), nb + 3)

\* ------------------------------------------------------- backward input
\* backward-input with the zero-element short-circuit of the forward dispatcher
backward_input_with_short_circuit(c, input_size, grad_output, weight, padding, stride, dilation, groups, flags, no, nb) ==
  LET e1 == <<EvCheck("checkAllSameType", c)>>
      e2 == Append(e1, EvCheck("checkAllSameGPU", c))
      memory_format == cudnn_conv_suggest_memory_format(grad_output, weight)
      grad_input_t == empty(input_size, grad_output.dtype, grad_output.dev,
                            memory_format, <<no, nb>>)
      e3 == Append(e2, EvAlloc(grad_input_t))
      e4 == Append(e3, EvCheck("convolution_shape_check", c))
      chk == convolution_shape_check(grad_input_t, weight, grad_output,
                                     padding, stride, dilation, groups)
      weight_contig == contiguous(weight, memory_format, <<no, nb + 1>>)
      grad_output_contig == contiguous(grad_output, memory_format, <<no, nb + 2>>)
      e5 == Append(e4, EvBackend("backward_input", grad_input_t,
                                 <<grad_output_contig, weight_contig>>,
                                 Undefined, 0, Undefined,
                                 Geom(padding, stride, dilation, groups), flags))
  IN IF ~checkAllSameType(grad_output, weight) THEN Fail(e1, "checkAllSameType", c, nb)
     ELSE IF ~checkAllSameGPU(grad_output, weight) THEN Fail(e2, "checkAllSameGPU", c, nb)
     ELSE IF Negative(input_size) THEN Fail(e2, "empty_cuda", c, nb)
     ELSE IF numel(grad_input_t) = 0 THEN Outcome("ok", e3, grad_input_t, nb + 1)
     ELSE IF chk # "ok" THEN Fail(e4, chk, c, nb + 1)
     ELSE Outcome("ok", e5, written(grad_input_t), nb + 3)

cudnn_convolution_backward_input_arg(c, input_size, grad_output, weight, padding, stride, dilation, groups, flags, no, nb) ==
  LET e1 == <<EvCheck("checkAllSameType", c)>>
      e2 == Append(e1, EvCheck("checkAllSameGPU", c))
      memory_format == cudnn_conv_suggest_memory_format(grad_output, weight)
      grad_input_t == empty(input_size, grad_output.dtype, grad_output.dev,
                            memory_format, <<no, nb>>)
      e3 == Append(e2, EvAlloc(grad_input_t))
      e4 == Append(e3, EvCheck("convolution_shape_check", c))
      chk == convolution_shape_check(grad_input_t, weight, grad_output,
                                     padding, stride, dilation, groups)
      weight_contig == contiguous(weight, memory_format, <<no, nb + 1>>)
      grad_output_contig == contiguous(grad_output, memory_format, <<no, nb + 2>>)
      e5 == Append(e4, EvBackend("backward_input", grad_input_t,
                                 <<grad_output_contig, weight_contig>>,
                                 Undefined, 0, Undefined,
                                 Geom(padding, stride, dilation, groups), flags))
  IN IF ~checkAllSameType(grad_output, weight) THEN Fail(e1, "checkAllSameType", c, nb)
     ELSE IF ~checkAllSameGPU(grad_output, weight) THEN Fail(e2, "checkAllSameGPU", c, nb)
     ELSE IF Negative(input_size) THEN Fail(e2, "empty_cuda", c, nb)
     ELSE IF chk # "ok" THEN Fail(e4, chk, c, nb + 1)
     ELSE Outcome("ok", e5, written(grad_input_t), nb + 3)

\* transpose_forward handing padding and output_padding over in each other's place
transpose_forward_swapping_paddings(c, grad_output, weight, padding, output_padding, stride, dilation, groups, flags, g, no, nb) ==
  LET input_size == conv_input_size(grad_output.sizes, weight.sizes, output_padding,
                                    padding, stride, dilation, groups, g)
  IN cudnn_convolution_backward_input_arg(c, input_size, grad_output, weight,
                                          padding, stride, dilation, groups, flags, no, nb)

cudnn_convolution_transpose_forward(c, grad_output, weight, padding, output_padding, stride, dilation, groups, flags, g, no, nb) ==
  LET input_size == conv_input_size(grad_output.sizes, weight.sizes, padding,
                                    output_padding, stride, dilation, groups, g)
  IN cudnn_convolution_backward_input_arg(c, input_size, grad_output, weight,
                                          padding, stride, dilation, groups, flags, no, nb)

cudnn_convolution_backward_input(input_size, grad_output_t, weight_t, padding, stride, dilation, groups, flags, no, nb) ==
  cudnn_convolution_backward_input_arg("cudnn_convolution_backward_input",
      input_size, grad_output_t, weight_t, padding, stride, dilation, groups, flags, no, nb)

cudnn_convolution_transpose(input_t, weight_t, padding, output_padding, stride, dilation, groups, flags, g, no) ==
  cudnn_convolution_transpose_forward("cudnn_convolution_transpose", input_t, weight_t,
      padding, output_padding, stride, dilation, groups, flags, g, no, 0)

\* cudnn_convolution_transpose_backward_input: the forward dispatcher on
\* (grad_output, weight)
cudnn_convolution_transpose_backward_input(grad_output_t, weight_t, padding, stride, dilation, groups, flags, g, no, nb) ==
  cudnn_convolution_forward("cudnn_convolution_transpose_backward_input",
      grad_output_t, weight_t, padding, stride, dilation, groups, flags, g, no, nb)

\* ------------------------------------------------------ backward weight
cudnn_convolution_backward_weight_arg(c, weight_size, grad_output_t, input_t, padding, stride, dilation, groups, flags, no, nb) ==
  LET layout == cudnn_conv_suggest_memory_format(input_t, grad_output_t)
      grad_output_contig == contiguous(grad_output_t, layout, <<no, nb>>)
      input == contiguous(input_t, layout, <<no, nb + 1>>)
      e1 == <<EvCheck("checkAllSameType", c)>>
      e2 == Append(e1, EvCheck("checkAllSameGPU", c))
      grad_weight_t == empty(weight_size, grad_output_contig.dtype,
                             grad_output_contig.dev, layout, <<no, nb + 2>>)
      e3 == Append(e2, EvAlloc(grad_weight_t))
      e4 == Append(e3, EvCheck("convolution_shape_check", c))
      chk == convolution_shape_check(input, grad_weight_t, grad_output_contig,
                                     padding, stride, dilation, groups)
      e5 == Append(e4, EvBackend("backward_weight", grad_weight_t,
                                 <<grad_output_contig, input>>,
                                 Undefined, 0, Undefined,
                                 Geom(padding, stride, dilation, groups), flags))
  IN IF ~checkAllSameType(grad_output_contig, input)
       THEN Fail(e1, "checkAllSameType", c, nb + 2)
     ELSE IF ~checkAllSameGPU(grad_output_contig, input)
       THEN Fail(e2, "checkAllSameGPU", c, nb + 2)
     ELSE IF Negative(weight_size) THEN Fail(e2, "empty", c, nb + 2)
     ELSE IF chk # "ok" THEN Fail(e4, chk, c, nb + 3)
     ELSE Outcome("ok", e5, written(grad_weight_t), nb + 3)

cudnn_convolution_backward_weight(weight_size, grad_output_t, input_t, padding, stride, dilation, groups, flags, no, nb) ==
  cudnn_convolution_backward_weight_arg("cudnn_convolution_backward_weight",
      weight_size, grad_output_t, input_t, padding, stride, dilation, groups, flags, no, nb)

\* the same function with the roles of input and grad_output interchanged
cudnn_convolution_transpose_backward_weight(weight_size, grad_output_t, input_t, padding, stride, dilation, groups, flags, no, nb) ==
  cudnn_convolution_backward_weight_arg("cudnn_convolution_backward_weight",
      weight_size, input_t, grad_output_t, padding, stride, dilation, groups, flags, no, nb)

\* ---------------------------------------------------- the orchestrators
Outcome2(status, events, grad_input, grad_weight) ==
  [status |-> status, events |-> events,
   grad_input |-> IF status = "ok" THEN grad_input ELSE Undefined,
   grad_weight |-> IF status = "ok" THEN grad_weight ELSE Undefined]

Skipped(nb) == Outcome("ok", <<>>, Undefined, nb)

\* run the two requested halves in order; the first failure ends the call
Both(first, second) ==
  IF first.status = "fail"
    THEN Outcome2("fail", first.events, Undefined, Undefined)
  ELSE IF second.status = "fail"
    THEN Outcome2("fail", first.events \o second.events, Undefined, Undefined)
  ELSE Outcome2("ok", first.events \o second.events, first.result, second.result)

\* backward computing the weight gradient whatever the mask says
backward_ignoring_mask(input, grad_output_t, weight, padding, stride, dilation, groups, flags, output_mask, no) ==
  LET memory_format == suggest_memory_format(input)
      grad_output == contiguous(grad_output_t, memory_format, <<no, 0>>)
      c == "cudnn_convolution_backward"
      empty_input_grad ==
        IF output_mask[1]
          THEN empty(input.sizes, input.dtype, input.dev, "Contiguous", <<no, 1>>)
          ELSE Undefined
      empty_input_weight ==
        IF output_mask[2]
          THEN zeros(weight.sizes, weight.dtype, weight.dev, <<no, 2>>)
          ELSE Undefined
      grad_input ==
        IF output_mask[1]
          THEN cudnn_convolution_backward_input(input.sizes, grad_output, weight,
                   padding, stride, dilation, groups, flags, no, 1)
          ELSE Skipped(1)
      grad_weight ==
        cudnn_convolution_backward_weight(weight.sizes, grad_output, input,
            padding, stride, dilation, groups, flags, no, grad_input.nb)
  IN IF ~CanContig(grad_output_t, memory_format)
       THEN Outcome2("fail", <<EvFail("contiguous", c)>>, Undefined, Undefined)
     ELSE IF numel(input) = 0
       THEN Outcome2("ok",
              (IF output_mask[1] THEN <<EvAlloc(empty_input_grad)>> ELSE <<>>)
                \o (IF output_mask[2] THEN <<EvAlloc(empty_input_weight)>> ELSE <<>>),
              empty_input_grad, empty_input_weight)
     ELSE Both(grad_input, grad_weight)

\* backward leaving the weight gradient of an empty input uninitialised
backward_without_zeroing(input, grad_output_t, weight, padding, stride, dilation, groups, flags, output_mask, no) ==
  LET memory_format == suggest_memory_format(input)
      grad_output == contiguous(grad_output_t, memory_format, <<no, 0>>)
      c == "cudnn_convolution_backward"
      empty_input_grad ==
        IF output_mask[1]
          THEN empty(input.sizes, input.dtype, input.dev, "Contiguous", <<no, 1>>)
          ELSE Undefined
      empty_input_weight ==
        IF output_mask[2]
          THEN empty(weight.sizes, weight.dtype, weight.dev, "Contiguous", <<no, 2>>)
          ELSE Undefined
      grad_input ==
        IF output_mask[1]
          THEN cudnn_convolution_backward_input(input.sizes, grad_output, weight,
                   padding, stride, dilation, groups, flags, no, 1)
          ELSE Skipped(1)
      grad_weight ==
        IF output_mask[2]
          THEN cudnn_convolution_backward_weight(weight.sizes, grad_output, input,
                   padding, stride, dilation, groups, flags, no, grad_input.nb)
          ELSE Skipped(grad_input.nb)
  IN IF ~CanContig(grad_output_t, memory_format)
       THEN Outcome2("fail", <<EvFail("contiguous", c)>>, Undefined, Undefined)
     ELSE IF numel(input) = 0
       THEN Outcome2("ok",
              (IF output_mask[1] THEN <<EvAlloc(empty_input_grad)>> ELSE <<>>)
                \o (IF output_mask[2] THEN <<EvAlloc(empty_input_weight)>> ELSE <<>>),
              empty_input_grad, empty_input_weight)
     ELSE Both(grad_input, grad_weight)

cudnn_convolution_backward(input, grad_output_t, weight, padding, stride, dilation, groups, flags, output_mask, no) ==
  LET memory_format == suggest_memory_format(input)
      grad_output == contiguous(grad_output_t, memory_format, <<no, 0>>)
      c == "cudnn_convolution_backward"
      empty_input_grad ==
        IF output_mask[1]
          THEN empty(input.sizes, input.dtype, input.dev, "Contiguous", <<no, 1>>)
          ELSE Undefined
      empty_input_weight ==
        IF output_mask[2]
          THEN zeros(weight.sizes, weight.dtype, weight.dev, <<no, 2>>)
          ELSE Undefined
      grad_input ==
        IF output_mask[1]
          THEN cudnn_convolution_backward_input(input.sizes, grad_output, weight,
                   padding, stride, dilation, groups, flags, no, 1)
          ELSE Skipped(1)
      grad_weight ==
        IF output_mask[2]
          THEN cudnn_convolution_backward_weight(weight.sizes, grad_output, input,
                   padding, stride, dilation, groups, flags, no, grad_input.nb)
          ELSE Skipped(grad_input.nb)
  IN IF ~CanContig(grad_output_t, memory_format)
       THEN Outcome2("fail", <<EvFail("contiguous", c)>>, Undefined, Undefined)
     ELSE IF numel(input) = 0
       THEN Outcome2("ok",
              (IF output_mask[1] THEN <<EvAlloc(empty_input_grad)>> ELSE <<>>)
                \o (IF output_mask[2] THEN <<EvAlloc(empty_input_weight)>> ELSE <<>>),
              empty_input_grad, empty_input_weight)
     ELSE Both(grad_input, grad_weight)

\* transpose-backward given the empty-input special case of backward
transpose_backward_like_backward(input, grad_output_t, weight, padding, output_padding, stride, dilation, groups, flags, output_mask, g, no) ==
  LET memory_format == suggest_memory_format(input)
      grad_output == contiguous(grad_output_t, memory_format, <<no, 0>>)
      c == "cudnn_convolution_transpose_backward"
      empty_input_grad ==
        IF output_mask[1]
          THEN empty(input.sizes, input.dtype, input.dev, "Contiguous", <<no, 1>>)
          ELSE Undefined
      empty_input_weight ==
        IF output_mask[2]
          THEN zeros(weight.sizes, weight.dtype, weight.dev, <<no, 2>>)
          ELSE Undefined
      grad_input ==
        IF output_mask[1]
          THEN cudnn_convolution_transpose_backward_input(grad_output, weight,
                   padding, stride, dilation, groups, flags, g, no, 1)
          ELSE Skipped(1)
      grad_weight ==
        IF output_mask[2]
          THEN cudnn_convolution_transpose_backward_weight(weight.sizes, grad_output,
                   input, padding, stride, dilation, groups, flags, no, grad_input.nb)
          ELSE Skipped(grad_input.nb)
  IN IF ~CanContig(grad_output_t, memory_format)
       THEN Outcome2("fail", <<EvFail("contiguous", c)>>, Undefined, Undefined)
     ELSE IF numel(input) = 0
       THEN Outcome2("ok",
              (IF output_mask[1] THEN <<EvAlloc(empty_input_grad)>> ELSE <<>>)
                \o (IF output_mask[2] THEN <<EvAlloc(empty_input_weight)>> ELSE <<>>),
              empty_input_grad, empty_input_weight)
     ELSE Both(grad_input, grad_weight)

cudnn_convolution_transpose_backward(input, grad_output_t, weight, padding, output_padding, stride, dilation, groups, flags, output_mask, g, no) ==
  LET memory_format == suggest_memory_format(input)
      grad_output == contiguous(grad_output_t, memory_format, <<no, 0>>)
      c == "cudnn_convolution_transpose_backward"
      grad_input ==
        IF output_mask[1]
          THEN cudnn_convolution_transpose_backward_input(grad_output, weight,
                   padding, stride, dilation, groups, flags, g, no, 1)
          ELSE Skipped(1)
      grad_weight ==
        IF output_mask[2]
          THEN cudnn_convolution_transpose_backward_weight(weight.sizes, grad_output,
                   input, padding, stride, dilation, groups, flags, no, grad_input.nb)
          ELSE Skipped(grad_input.nb)
  IN IF ~CanContig(grad_output_t, memory_format)
       THEN Outcome2("fail", <<EvFail("contiguous", c)>>, Undefined, Undefined)
     ELSE Both(grad_input, grad_weight)

\* ------------------------------------------- fused bias and activation
\* the primitive the build links: AT_CUDNN_CONV_BIAS_RELU_FALLBACK or not
FusedPrimitive(fallback) == IF fallback THEN "add_relu_fallback" ELSE "add_relu"

\* the fused entry points handing the process-wide policy on to the primitive
fused_flags_from_context(context) ==
  [benchmark |-> context.benchmark, deterministic |-> context.deterministic,
   allow_tf32 |-> context.allow_tf32]

FusedFlags(context) ==
  [benchmark |-> FALSE, deterministic |-> FALSE, allow_tf32 |-> context.allow_tf32]

\* cudnn_convolution_relu leaving the scale of the add term at one
relu_with_unit_scale(input_t, weight_t, bias_t, stride, padding, dilation, groups, context, fallback, g, no) ==
  LET c == "cudnn_convolution_relu"
      memory_format == cudnn_conv_suggest_memory_format(input_t, weight_t)
      input == contiguous(input_t, memory_format, <<no, 1>>)
      weight == contiguous(weight_t, memory_format, <<no, 2>>)
      osize == conv_output_size(input.sizes, weight.sizes, padding, stride, dilation, g)
      output_t == empty(osize, input.dtype, input.dev, memory_format, <<no, 0>>)
      _bias == IF defined(bias_t) THEN bias_t
               ELSE zeros(<<output_t.sizes[2]>>, output_t.dtype, output_t.dev, <<no, 3>>)
      call_ == EvBackend(FusedPrimitive(fallback), output_t, <<input, weight>>,
                         output_t, 1, _bias,
                         Geom(padding, stride, dilation, groups), FusedFlags(context))
  IN IF Negative(osize) THEN Fail(<<>>, "empty_cuda", c, 3)
     ELSE IF numel(output_t) = 0 THEN Outcome("ok", <<EvAlloc(output_t)>>, output_t, 3)
     ELSE Outcome("ok", <<EvAlloc(output_t), call_>>, written(output_t), 4)

cudnn_convolution_relu(input_t, weight_t, bias_t, stride, padding, dilation, groups, context, fallback, g, no) ==
  LET c == "cudnn_convolution_relu"
      memory_format == cudnn_conv_suggest_memory_format(input_t, weight_t)
      input == contiguous(input_t, memory_format, <<no, 1>>)
      weight == contiguous(weight_t, memory_format, <<no, 2>>)
      osize == conv_output_size(input.sizes, weight.sizes, padding, stride, dilation, g)
      output_t == empty(osize, input.dtype, input.dev, memory_format, <<no, 0>>)
      _bias == IF defined(bias_t) THEN bias_t
               ELSE zeros(<<output_t.sizes[2]>>, output_t.dtype, output_t.dev, <<no, 3>>)
      call_ == EvBackend(FusedPrimitive(fallback), output_t, <<input, weight>>,
                         output_t, 0, _bias,
                         Geom(padding, stride, dilation, groups), FusedFlags(context))
  IN IF Negative(osize) THEN Fail(<<>>, "empty_cuda", c, 3)
     ELSE IF numel(output_t) = 0 THEN Outcome("ok", <<EvAlloc(output_t)>>, output_t, 3)
     ELSE Outcome("ok", <<EvAlloc(output_t), call_>>, written(output_t), 4)

\* the residual variant handing its own output to the backend as z
add_relu_aliasing_output(input_t, weight_t, z_t, alpha, bias_t, stride, padding, dilation, groups, context, fallback, g, no) ==
  LET c == "cudnn_convolution_add_relu"
      memory_format == cudnn_conv_suggest_memory_format(input_t, weight_t)
      input == contiguous(input_t, memory_format, <<no, 1>>)
      weight == contiguous(weight_t, memory_format, <<no, 2>>)
      osize == conv_output_size(input.sizes, weight.sizes, padding, stride, dilation, g)
      output_t == empty(osize, input.dtype, input.dev, memory_format, <<no, 0>>)
      _alpha == IF alpha # <<>> THEN alpha[1] ELSE 1
      _bias == IF defined(bias_t) THEN bias_t
               ELSE zeros(<<output_t.sizes[2]>>, output_t.dtype, output_t.dev, <<no, 3>>)
      call_ == EvBackend(FusedPrimitive(fallback), output_t, <<input, weight>>,
                         output_t, _alpha, _bias,
                         Geom(padding, stride, dilation, groups), FusedFlags(context))
  IN IF Negative(osize) THEN Fail(<<>>, "empty_cuda", c, 3)
     ELSE IF numel(output_t) = 0 THEN Outcome("ok", <<EvAlloc(output_t)>>, output_t, 3)
     ELSE Outcome("ok", <<EvAlloc(output_t), call_>>, written(output_t), 4)

cudnn_convolution_add_relu(input_t, weight_t, z_t, alpha, bias_t, stride, padding, dilation, groups, context, fallback, g, no) ==
  LET c == "cudnn_convolution_add_relu"
      memory_format == cudnn_conv_suggest_memory_format(input_t, weight_t)
      input == contiguous(input_t, memory_format, <<no, 1>>)
      weight == contiguous(weight_t, memory_format, <<no, 2>>)
      osize == conv_output_size(input.sizes, weight.sizes, padding, stride, dilation, g)
      output_t == empty(osize, input.dtype, input.dev, memory_format, <<no, 0>>)
      _alpha == IF alpha # <<>> THEN alpha[1] ELSE 1
      _bias == IF defined(bias_t) THEN bias_t
               ELSE zeros(<<output_t.sizes[2]>>, output_t.dtype, output_t.dev, <<no, 3>>)
      call_ == EvBackend(FusedPrimitive(fallback), output_t, <<input, weight>>,
                         z_t, _alpha, _bias,
                         Geom(padding, stride, dilation, groups), FusedFlags(context))
  IN IF Negative(osize) THEN Fail(<<>>, "empty_cuda", c, 3)
     ELSE IF numel(output_t) = 0 THEN Outcome("ok", <<EvAlloc(output_t)>>, output_t, 3)
     ELSE Outcome("ok", <<EvAlloc(output_t), call_>>, written(output_t), 4)

\* ------------------------------------------------------- the calls made
\* A call is described by its nominal rank and by the set F of attributes in
\* which it deviates from a well-formed call on contiguous float tensors of
\* one device.  An attribute is a pair <<what, how>>.
Has(F, x, a) == <<x, a>> \in F

Sp(r, v) == [i \in 1..(r - 2) |-> v]

RankOf(F, x, r) == IF Has(F, x, "rank") THEN r + 1 ELSE r

ChannelsLastOf(r) ==
  IF r = 4 THEN "ChannelsLast" ELSE IF r = 5 THEN "ChannelsLast3d" ELSE "Contiguous"

\* sizes <<first, second, spatial...>> of the tensor in role x
SizesOf(F, x, r, sp) ==
  <<IF Has(F, x, "empty") THEN 0 ELSE IF x \in {"weight", "weight_size"} THEN 2 ELSE 1, 2>>
    \o Sp(RankOf(F, x, r), sp)

BufOf(F, x, earlier) ==
  IF Has(F, x, "earlier") /\ earlier > 0 THEN <<earlier, 0>>
  ELSE <<0, CASE x = "input" -> 1 [] x = "weight" -> 2 [] x = "grad_output" -> 3
                [] x = "z" -> 4 [] x = "bias" -> 5>>

TensorOf(F, x, r, sp, earlier) ==
  [buf |-> BufOf(F, x, earlier),
   dtype |-> IF Has(F, x, "half") THEN "Half" ELSE "Float",
   dev |-> IF Has(F, x, "dev1") THEN 1 ELSE 0,
   sizes |-> SizesOf(F, x, r, sp),
   fmt |-> IF Has(F, x, "cl") THEN ChannelsLastOf(RankOf(F, x, r)) ELSE "Contiguous",
   data |-> "data"]

SeqOf(F, x, r, v) ==
  LET base == Sp(r, IF Has(F, x, "neg") THEN -1 ELSE IF Has(F, x, "two") THEN 2 ELSE v)
  IN IF Has(F, x, "short") THEN SubSeq(base, 1, Len(base) - 1)
     ELSE IF Has(F, x, "long") THEN Append(base, v)
     ELSE base

PaddingOf(F, r) == SeqOf(F, "padding", r, 0)

StrideOf(F, r) == SeqOf(F, "stride", r, 1)

DilationOf(F, r) == SeqOf(F, "dilation", r, 1)

OutputPaddingOf(F, r) == SeqOf(F, "output_padding", r, 0)

GroupsOf(F) == IF Has(F, "groups", "two") THEN 2 ELSE 1

FlagsOf(F) ==
  [benchmark |-> Has(F, "flags", "on"), deterministic |-> Has(F, "flags", "on"),
   allow_tf32 |-> Has(F, "flags", "on")]

TensorAttrs(x) == {<<x, "half">>, <<x, "dev1">>, <<x, "cl">>, <<x, "rank">>, <<x, "empty">>}

GeomAttrs ==
  {<<"padding", "short">>, <<"padding", "long">>, <<"padding", "neg">>,
   <<"stride", "short">>, <<"stride", "two">>, <<"dilation", "short">>,
   <<"groups", "two">>, <<"flags", "on">>}

\* every call that deviates in no, one or two attributes
Deviations(attrs) == {{}} \cup {{a, b} : a \in attrs, b \in attrs}

Ranks == 3..MaxRank

\* values an out-of-range read of padding, stride, dilation or sizes may yield
Garbage == {1, 2}

\* the out-of-range reads happen only when the lengths disagree
GarbageFor(F) ==
  IF \E f \in F : f[2] \in {"short", "rank"} THEN Garbage ELSE {1}

NoCall ==
  [entry |-> "none", status |-> "idle", F |-> {}, r |-> 0, g |-> 0,
   mask |-> <<FALSE, FALSE>>, tensors |-> <<>>, events |-> <<>>, results |-> <<>>]

Done(entry, F, r, g, mask, tensors, out, results) ==
  [entry |-> entry, status |-> out.status, F |-> F, r |-> r, g |-> g, mask |-> mask,
   tensors |-> tensors, events |-> out.events,
   results |-> IF out.status = "ok" THEN results ELSE <<>>]

\* ----------------------------------------------------------- entry points
\* cudnn_convolution
cudnn_convolution(input_t, weight_t, padding, stride, dilation, groups, flags, g, no) ==
  cudnn_convolution_forward("cudnn_convolution", input_t, weight_t,
                            padding, stride, dilation, groups, flags, g, no, 0)

ForwardAttrs == TensorAttrs("input") \cup TensorAttrs("weight") \cup GeomAttrs
                  \cup {<<"input", "earlier">>}

Forward ==
  /\ call.entry = "none" /\ ncalls < MaxCalls
  /\ \E r \in Ranks, F \in Deviations(ForwardAttrs) : \E g \in GarbageFor(F) :
       LET input == TensorOf(F, "input", r, 3, ncalls)
           weight == TensorOf(F, "weight", r, 2, ncalls)
           out == cudnn_convolution(input, weight, PaddingOf(F, r), StrideOf(F, r),
                                    DilationOf(F, r), GroupsOf(F), FlagsOf(F), g, ncalls + 1)
       IN call' = Done("forward", F, r, g, <<FALSE, FALSE>>, <<input, weight>>, out, <<out.result>>)
  /\ ncalls' = ncalls + 1
  /\ UNCHANGED <<ctx, build, probe>>

BackwardInputAttrs ==
  TensorAttrs("grad_output") \cup TensorAttrs("weight") \cup GeomAttrs
    \cup {<<"input_size", "empty">>, <<"input_size", "rank">>, <<"grad_output", "earlier">>}

BackwardInput ==
  /\ call.entry = "none" /\ ncalls < MaxCalls
  /\ \E r \in Ranks, F \in Deviations(BackwardInputAttrs) :
       LET input_size == SizesOf(F, "input_size", r, 3)
           grad_output == TensorOf(F, "grad_output", r, 2, ncalls)
           weight == TensorOf(F, "weight", r, 2, ncalls)
           out == cudnn_convolution_backward_input(input_size, grad_output, weight,
                      PaddingOf(F, r), StrideOf(F, r), DilationOf(F, r), GroupsOf(F),
                      FlagsOf(F), ncalls + 1, 0)
       IN call' = Done("backward_input", F, r, 1, <<FALSE, FALSE>>,
                       <<grad_output, weight>>, out, <<out.result>>)
  /\ ncalls' = ncalls + 1
  /\ UNCHANGED <<ctx, build, probe>>

TransposeAttrs ==
  TensorAttrs("input") \cup TensorAttrs("weight") \cup GeomAttrs
    \cup {<<"output_padding", "two">>, <<"output_padding", "short">>, <<"input", "earlier">>}

\* cudnn_convolution_transpose
TransposeForward ==
  /\ call.entry = "none" /\ ncalls < MaxCalls
  /\ \E r \in Ranks, F \in Deviations(TransposeAttrs) : \E g \in GarbageFor(F) :
       LET input == TensorOf(F, "input", r, 2, ncalls)
           weight == TensorOf(F, "weight", r, 2, ncalls)
           out == cudnn_convolution_transpose(input, weight, PaddingOf(F, r),
                      OutputPaddingOf(F, r), StrideOf(F, r), DilationOf(F, r),
                      GroupsOf(F), FlagsOf(F), g, ncalls + 1)
       IN call' = Done("transpose_forward", F, r, g, <<FALSE, FALSE>>,
                       <<input, weight>>, out, <<out.result>>)
  /\ ncalls' = ncalls + 1
  /\ UNCHANGED <<ctx, build, probe>>

BackwardWeightAttrs ==
  TensorAttrs("grad_output") \cup TensorAttrs("input") \cup GeomAttrs
    \cup {<<"weight_size", "empty">>, <<"weight_size", "rank">>, <<"input", "earlier">>}

BackwardWeight ==
  /\ call.entry = "none" /\ ncalls < MaxCalls
  /\ \E r \in Ranks, F \in Deviations(BackwardWeightAttrs) :
       LET weight_size == SizesOf(F, "weight_size", r, 2)
           grad_output == TensorOf(F, "grad_output", r, 2, ncalls)
           input == TensorOf(F, "input", r, 3, ncalls)
           out == cudnn_convolution_backward_weight(weight_size, grad_output, input,
                      PaddingOf(F, r), StrideOf(F, r), DilationOf(F, r), GroupsOf(F),
                      FlagsOf(F), ncalls + 1, 0)
       IN call' = Done("backward_weight", F, r, 1, <<FALSE, FALSE>>,
                       <<grad_output, input>>, out, <<out.result>>)
  /\ ncalls' = ncalls + 1
  /\ UNCHANGED <<ctx, build, probe>>

BackwardAttrs ==
  TensorAttrs("input") \cup TensorAttrs("grad_output") \cup TensorAttrs("weight")
    \cup GeomAttrs \cup {<<"input", "earlier">>}

Masks == {<<a, b>> : a \in BOOLEAN, b \in BOOLEAN}

Backward ==
  /\ call.entry = "none" /\ ncalls < MaxCalls
  /\ \E r \in Ranks, F \in Deviations(BackwardAttrs), output_mask \in Masks :
       LET input == TensorOf(F, "input", r, 3, ncalls)
           grad_output == TensorOf(F, "grad_output", r, 2, ncalls)
           weight == TensorOf(F, "weight", r, 2, ncalls)
           out == cudnn_convolution_backward(input, grad_output, weight,
                      PaddingOf(F, r), StrideOf(F, r), DilationOf(F, r), GroupsOf(F),
                      FlagsOf(F), output_mask, ncalls + 1)
       IN call' = Done("backward", F, r, 1, output_mask, <<input, grad_output, weight>>,
                       out, <<out.grad_input, out.grad_weight>>)
  /\ ncalls' = ncalls + 1
  /\ UNCHANGED <<ctx, build, probe>>

TransposeBackward ==
  /\ call.entry = "none" /\ ncalls < MaxCalls
  /\ \E r \in Ranks, F \in Deviations(BackwardAttrs), output_mask \in Masks :
     \E g \in GarbageFor(F) :
       LET input == TensorOf(F, "input", r, 2, ncalls)
           grad_output == TensorOf(F, "grad_output", r, 3, ncalls)
           weight == TensorOf(F, "weight", r, 2, ncalls)
           out == cudnn_convolution_transpose_backward(input, grad_output, weight,
                      PaddingOf(F, r), OutputPaddingOf(F, r), StrideOf(F, r),
                      DilationOf(F, r), GroupsOf(F), FlagsOf(F), output_mask, g,
                      ncalls + 1)
       IN call' = Done("transpose_backward", F, r, g, output_mask,
                       <<input, grad_output, weight>>,
                       out, <<out.grad_input, out.grad_weight>>)
  /\ ncalls' = ncalls + 1
  /\ UNCHANGED <<ctx, build, probe>>

BiasOf(F) ==
  IF Has(F, "bias", "given")
    THEN [buf |-> BufOf(F, "bias", 0), dtype |-> "Float", dev |-> 0, sizes |-> <<2>>,
          fmt |-> "Contiguous", data |-> "data"]
    ELSE Undefined

\* an optional scalar: <<>> when omitted, <<v>> when given
AlphaOf(F) ==
  IF Has(F, "alpha", "zero") THEN <<0>> ELSE IF Has(F, "alpha", "two") THEN <<2>> ELSE <<>>

FusedAttrs ==
  TensorAttrs("input") \cup TensorAttrs("weight") \cup GeomAttrs
    \cup {<<"bias", "given">>, <<"input", "earlier">>}

ConvBiasRelu ==
  /\ call.entry = "none" /\ ncalls < MaxCalls
  /\ \E r \in Ranks, F \in Deviations(FusedAttrs) : \E g \in GarbageFor(F) :
       LET input == TensorOf(F, "input", r, 3, ncalls)
           weight == TensorOf(F, "weight", r, 2, ncalls)
           out == cudnn_convolution_relu(input, weight, BiasOf(F), StrideOf(F, r),
                      PaddingOf(F, r), DilationOf(F, r), GroupsOf(F), ctx, build, g,
                      ncalls + 1)
       IN call' = Done("conv_bias_relu", F, r, g, <<FALSE, FALSE>>,
                       <<input, weight, BiasOf(F)>>, out, <<out.result>>)
  /\ ncalls' = ncalls + 1
  /\ UNCHANGED <<ctx, build, probe>>

FusedAddAttrs ==
  FusedAttrs \cup {<<"z", "cl">>, <<"z", "earlier">>, <<"alpha", "zero">>, <<"alpha", "two">>}

ConvBiasAddRelu ==
  /\ call.entry = "none" /\ ncalls < MaxCalls
  /\ \E r \in Ranks, F \in Deviations(FusedAddAttrs) : \E g \in GarbageFor(F) :
       LET input == TensorOf(F, "input", r, 3, ncalls)
           weight == TensorOf(F, "weight", r, 2, ncalls)
           z == TensorOf(F, "z", r, 2, ncalls)
           out == cudnn_convolution_add_relu(input, weight, z, AlphaOf(F), BiasOf(F),
                      StrideOf(F, r), PaddingOf(F, r), DilationOf(F, r), GroupsOf(F),
                      ctx, build, g, ncalls + 1)
       IN call' = Done("conv_bias_add_relu", F, r, g, <<FALSE, FALSE>>,
                       <<input, weight, BiasOf(F), z>>, out, <<out.result>>)
  /\ ncalls' = ncalls + 1
  /\ UNCHANGED <<ctx, build, probe>>

\* the call has returned or thrown: its frame is gone, the caller goes on
Return ==
  /\ call.entry # "none"
  /\ call' = NoCall
  /\ UNCHANGED <<ctx, build, ncalls, probe>>

Init ==
  /\ ctx \in [allow_tf32 : BOOLEAN, benchmark : BOOLEAN, deterministic : BOOLEAN]
  /\ build \in BOOLEAN
  /\ ncalls = 0
  /\ call = NoCall
  /\ probe = <<>>

Next ==
  \/ Forward
  \/ BackwardInput
  \/ TransposeForward
  \/ BackwardWeight
  \/ Backward
  \/ TransposeBackward
  \/ ConvBiasRelu
  \/ ConvBiasAddRelu
  \/ Return

Spec == Init /\ [][Next]_vars

\* ------------------------------------------ the helpers taken on their own
Quiet ==
  /\ ctx = [allow_tf32 |-> FALSE, benchmark |-> FALSE, deterministic |-> FALSE]
  /\ build = FALSE
  /\ ncalls = 0
  /\ call = NoCall

Entries == -1..1

ArgLists == UNION {[1..n -> Entries] : n \in 0..MaxLen}

InitCheckArgs ==
  /\ Quiet
  /\ probe \in {[fn |-> "check_args", values |-> v, expected |-> n, done |-> FALSE,
                 result |-> "pending"] : v \in ArgLists, n \in 0..MaxLen}

CheckArgs ==
  /\ probe.fn = "check_args" /\ ~probe.done
  /\ probe' = [probe EXCEPT !.done = TRUE,
                            !.result = check_args(probe.values, probe.expected)]
  /\ UNCHANGED <<ctx, build, ncalls, call>>

NextCheckArgs == CheckArgs

SpecCheckArgs == InitCheckArgs /\ [][NextCheckArgs]_vars

InitSizes ==
  /\ Quiet
  /\ probe \in {[fn |-> "sizes", in |-> i, kernel |-> k, stride |-> s, pad |-> p,
                 dilation |-> d, done |-> FALSE, out |-> 0, back |-> <<>>] :
                  i \in 1..MaxSize, k \in 1..MaxKernel, s \in 1..MaxStride,
                  p \in 0..MaxPadding, d \in 1..MaxDilation}

\* cudnn_convolution on an input of spatial size in, then
\* cudnn_convolution_transpose on its output with output_padding = 0; back
\* holds the spatial size of what the second call returns, if it returns
SizeRoundTrip ==
  /\ probe.fn = "sizes" /\ ~probe.done
  /\ LET input == [buf |-> <<0, 1>>, dtype |-> "Float", dev |-> 0,
                   sizes |-> <<1, 2, probe.in>>, fmt |-> "Contiguous", data |-> "data"]
         weight == [buf |-> <<0, 2>>, dtype |-> "Float", dev |-> 0,
                    sizes |-> <<2, 2, probe.kernel>>, fmt |-> "Contiguous",
                    data |-> "data"]
         flags == [benchmark |-> FALSE, deterministic |-> FALSE, allow_tf32 |-> FALSE]
         fwd == cudnn_convolution(input, weight, <<probe.pad>>, <<probe.stride>>,
                                  <<probe.dilation>>, 1, flags, 1, 1)
         bwd == cudnn_convolution_transpose(fwd.result, weight, <<probe.pad>>, <<0>>,
                                            <<probe.stride>>, <<probe.dilation>>, 1,
                                            flags, 1, 2)
         positive == fwd.status = "ok" /\ numel(fwd.result) > 0
     IN probe' = [probe EXCEPT !.done = TRUE,
                               !.out = IF positive THEN fwd.result.sizes[3] ELSE 0,
                               !.back = IF positive /\ bwd.status = "ok"
                                          THEN <<bwd.result.sizes[3]>> ELSE <<>>]
  /\ UNCHANGED <<ctx, build, ncalls, call>>

NextSizes == SizeRoundTrip

SpecSizes == InitSizes /\ [][NextSizes]_vars

\* a geometry of the given rank: batch 1, ch channels, every spatial size sp
Shape(rank, ch, sp) ==
  [sizes |-> [i \in 1..rank |-> IF i = 1 THEN 1 ELSE IF i = 2 THEN ch ELSE sp]]

\* a list of n entries v, the first one negative when bad
ListOf(n, v, bad) == [i \in 1..n |-> IF bad /\ i = 1 THEN -1 ELSE v]

Near(n) == {m \in {n - 1, n, n + 1} : m >= 0}

InitShapeCheck ==
  /\ Quiet
  /\ \E ir \in 1..(MaxRank + 2), np \in 0..MaxRank :
     \E wr \in {1} \cup Near(ir), or \in Near(ir), ns \in Near(np), nd \in Near(np) :
     \E ch \in {2, 4}, osp \in {1, 2}, groups \in {1, 2},
        neg \in {"none", "padding", "stride", "dilation"} :
       probe = [fn |-> "shape_check",
                input |-> Shape(ir, ch, 3),
                weight |-> Shape(wr, 2, 2),
                output |-> Shape(or, 2, osp),
                padding |-> ListOf(np, 0, neg = "padding"),
                stride |-> ListOf(ns, 1, neg = "stride"),
                dilation |-> ListOf(nd, 1, neg = "dilation"),
                groups |-> groups, done |-> FALSE, result |-> "pending"]

ShapeCheck ==
  /\ probe.fn = "shape_check" /\ ~probe.done
  /\ probe' = [probe EXCEPT !.done = TRUE,
                 !.result = convolution_shape_check(probe.input, probe.weight,
                                probe.output, probe.padding, probe.stride,
                                probe.dilation, probe.groups)]
  /\ UNCHANGED <<ctx, build, ncalls, call>>

NextShapeCheck == ShapeCheck

SpecShapeCheck == InitShapeCheck /\ [][NextShapeCheck]_vars

InitDump ==
  /\ Quiet
  /\ \E r \in 3..5, capacity \in MinCapacity..MaxCapacity, dtype \in {"Float", "Half"},
        groups \in {1, 12}, deterministic \in BOOLEAN, allow_tf32 \in BOOLEAN :
     \E padding \in [1..(r - 2) -> {0, 12}], stride \in [1..(r - 2) -> {1, 2}],
        d \in {1, -1} :
       probe = [fn |-> "dump", r |-> r, capacity |-> capacity,
                input |-> [buf |-> <<0, 1>>, dtype |-> dtype, dev |-> 0,
                           sizes |-> <<1, 2 * groups>> \o Sp(r, 3),
                           fmt |-> "Contiguous", data |-> "data"],
                weight |-> [buf |-> <<0, 2>>, dtype |-> dtype, dev |-> 0,
                            sizes |-> <<2, 2>> \o Sp(r, 2),
                            fmt |-> "Contiguous", data |-> "data"],
                padding |-> padding, stride |-> stride, dilation |-> Sp(r, d),
                groups |-> groups, deterministic |-> deterministic,
                allow_tf32 |-> allow_tf32, done |-> FALSE, text |-> <<>>]

\* setConvolutionParams, then the dump of the value it filled
DumpParams ==
  /\ probe.fn = "dump" /\ ~probe.done
  /\ LET params == setConvolutionParams(probe.capacity, probe.input, probe.weight,
                      probe.padding, probe.stride, probe.dilation, probe.groups,
                      probe.deterministic, probe.allow_tf32)
     IN probe' = [probe EXCEPT !.done = TRUE, !.text = operator_out(params)]
  /\ UNCHANGED <<ctx, build, ncalls, call>>

NextDump == DumpParams

SpecDump == InitDump /\ [][NextDump]_vars

\* ------------------------------------------------- reading a call's trace
Events == call.events

Backends == {i \in DOMAIN Events : Events[i].kind = "backend"}

Failures == {i \in DOMAIN Events : Events[i].kind = "InvalidArgument"}

Allocs == {i \in DOMAIN Events : Events[i].kind = "alloc"}

ShapeChecks ==
  {i \in DOMAIN Events :
     Events[i].kind = "check" /\ Events[i].name = "convolution_shape_check"}

BackendsOf(prim) == {i \in Backends : Events[i].prim = prim}

Kinds == [i \in DOMAIN Events |-> Events[i].kind]

\* C1: fail-fast.  In no call does an InvalidArgument failure follow a backend
\* call of the same entry-point call: every check of the call has run before
\* the first backend primitive is invoked.
C1_FailFast ==
  \A i \in Failures : \A j \in Backends : i < j

\* C2: the forward dispatcher returns a zero-element output at once, after the
\* same-dtype and same-device checks only, without running the shape check or
\* the backend; with an output of at least one element the shape check runs
\* and, when it passes, the forward primitive is invoked exactly once with the
\* output that was allocated before the check.
C2_ForwardShortCircuit ==
  call.entry = "forward" /\ Allocs # {} =>
    LET a == Events[CHOOSE i \in Allocs : TRUE]
        passes == convolution_shape_check(call.tensors[1], call.tensors[2],
                      [sizes |-> a.sizes], PaddingOf(call.F, call.r),
                      StrideOf(call.F, call.r), DilationOf(call.F, call.r),
                      GroupsOf(call.F)) = "ok"
    IN /\ Cardinality(Allocs) = 1
       /\ Prod(a.sizes) = 0 =>
            /\ call.status = "ok"
            /\ Kinds = <<"check", "check", "alloc">>
            /\ Events[1].name = "checkAllSameType"
            /\ Events[2].name = "checkAllSameGPU"
            /\ call.results[1].buf = a.buf
            /\ call.results[1].data = "uninitialized"
       /\ Prod(a.sizes) > 0 =>
            /\ Cardinality(ShapeChecks) = 1
            /\ passes =>
                 /\ call.status = "ok"
                 /\ Cardinality(Backends) = 1
                 /\ Backends = BackendsOf("forward")
                 /\ \A j \in Backends : \A i \in Allocs \cup ShapeChecks : i < j
                 /\ \A j \in Backends : Events[j].output.buf = a.buf
                 /\ call.results[1].buf = a.buf
            /\ ~passes => call.status = "fail" /\ Backends = {}

C2_Witness ==
  /\ call.entry = "forward" /\ call.status = "ok"
  /\ Backends = {}
  /\ numel(call.results[1]) = 0
  /\ numel(call.tensors[1]) > 0

\* C3: backward on an input of at least one element never invokes a backend
\* primitive whose mask bit is false and invokes each primitive at most once;
\* when the call returns, the backward-input primitive has been invoked iff
\* mask[0] and the backward-weight primitive iff mask[1], and a result whose
\* mask bit is false is undefined.  With mask [false, false] nothing is done.
C3_BackwardMask ==
  call.entry = "backward" /\ numel(call.tensors[1]) > 0 =>
    /\ Backends = BackendsOf("backward_input") \cup BackendsOf("backward_weight")
    /\ Cardinality(BackendsOf("backward_input")) <= 1
    /\ Cardinality(BackendsOf("backward_weight")) <= 1
    /\ BackendsOf("backward_input") # {} => call.mask[1]
    /\ BackendsOf("backward_weight") # {} => call.mask[2]
    /\ call.status = "ok" =>
         /\ BackendsOf("backward_input") # {} <=> call.mask[1]
         /\ BackendsOf("backward_weight") # {} <=> call.mask[2]
         /\ defined(call.results[1]) <=> call.mask[1]
         /\ defined(call.results[2]) <=> call.mask[2]
    /\ call.mask = <<FALSE, FALSE>> =>
         /\ Backends = {} /\ Allocs = {}
         /\ call.status = "ok" => call.results = <<Undefined, Undefined>>

C3_Witness ==
  /\ call.entry = "backward" /\ call.status = "ok"
  /\ numel(call.tensors[1]) > 0
  /\ call.mask = <<TRUE, FALSE>>
  /\ Cardinality(BackendsOf("backward_input")) = 1
  /\ BackendsOf("backward_weight") = {}
  /\ ~defined(call.results[2])

\* C4 as stated: backward on a zero-element input returns an all-zero
\* grad-weight and makes no backend call, for every mask combination.
C4_AlwaysZeroGradWeight ==
  call.entry = "backward" /\ call.status = "ok" /\ numel(call.tensors[1]) = 0 =>
    /\ Backends = {}
    /\ call.results[2].data = "zeros"

\* C4, amended: backward on a zero-element input makes no backend call for
\* any mask; the grad-weight it returns is all zeros and has the shape of
\* weight when mask[1] is true and is undefined when mask[1] is false; the
\* grad-input it returns is a buffer of exactly the shape of input when
\* mask[0] is true and is undefined when mask[0] is false.
C4_EmptyInputBackward ==
  call.entry = "backward" /\ numel(call.tensors[1]) = 0 =>
    /\ Backends = {}
    /\ call.status = "ok" =>
         /\ call.mask[2] =>
              /\ call.results[2].data = "zeros"
              /\ call.results[2].sizes = call.tensors[3].sizes
         /\ ~call.mask[2] => call.results[2] = Undefined
         /\ call.mask[1] =>
              /\ defined(call.results[1])
              /\ call.results[1].sizes = call.tensors[1].sizes
         /\ ~call.mask[1] => call.results[1] = Undefined

C4_Witness ==
  /\ call.entry = "backward" /\ call.status = "ok"
  /\ numel(call.tensors[1]) = 0
  /\ call.mask = <<TRUE, TRUE>>
  /\ call.results[2].data = "zeros"
  /\ call.results[1].sizes = call.tensors[1].sizes

\* the same tensor up to the buffer and layout a contiguous copy changes
SameData(a, b) == a.sizes = b.sizes /\ a.dtype = b.dtype /\ a.dev = b.dev

ResultSize ==
  IF call.entry = "backward_input"
    THEN SizesOf(call.F, "input_size", call.r, 3)
    ELSE conv_input_size(call.tensors[1].sizes, call.tensors[2].sizes,
             PaddingOf(call.F, call.r), OutputPaddingOf(call.F, call.r),
             StrideOf(call.F, call.r), DilationOf(call.F, call.r),
             GroupsOf(call.F), call.g)

Pattern ==
  {<<"check", "InvalidArgument">>,
   <<"check", "check", "InvalidArgument">>,
   <<"check", "check", "alloc", "check", "InvalidArgument">>,
   <<"check", "check", "alloc", "check", "backend">>}

C7_SingleLayout ==
  \A j \in Backends :
    /\ \A k \in DOMAIN Events[j].operands :
         Events[j].operands[k].fmt = Events[j].output.fmt
    /\ defined(Events[j].z) => Events[j].z.fmt = Events[j].output.fmt

CallerBufs == {call.tensors[k].buf : k \in DOMAIN call.tensors}

FreshOutput(e, j) ==
  /\ e.output.buf[1] = ncalls
  /\ e.output.buf \notin CallerBufs
  /\ \E i \in Allocs : i < j /\ Events[i].buf = e.output.buf
  /\ \A k \in DOMAIN e.operands : e.operands[k].buf # e.output.buf
  /\ defined(e.bias) => e.bias.buf # e.output.buf
  /\ \A i \in Backends : i # j => Events[i].output.buf # e.output.buf

\* C8 as stated: the buffer handed to the backend as output is allocated in
\* this call, is no caller-supplied tensor, is reused from no earlier call and
\* is handed to the same backend call in no other operand role.
C8_ExclusiveOutput ==
  \A j \in Backends :
    /\ FreshOutput(Events[j], j)
    /\ defined(Events[j].z) => Events[j].z.buf # Events[j].output.buf

\* C8, amended: the buffer handed to the backend as output is allocated in
\* this call, is no caller-supplied tensor, is reused from no earlier call and
\* is handed to the same backend call in no other operand role, except that
\* conv_bias_relu hands its output buffer to the fused primitive as the
\* residual z as well (scaled by alpha = 0).  Every result returned is such a
\* buffer of this call.
C8_FreshOutput ==
  /\ \A j \in Backends :
       /\ FreshOutput(Events[j], j)
       /\ defined(Events[j].z) =>
            /\ Events[j].z.buf = Events[j].output.buf <=> call.entry = "conv_bias_relu"
            /\ call.entry = "conv_bias_relu" => Events[j].alpha = 0
  /\ \A k \in DOMAIN call.results :
       defined(call.results[k]) =>
         /\ call.results[k].buf[1] = ncalls
         /\ call.results[k].buf \notin CallerBufs
         /\ \E i \in Allocs : Events[i].buf = call.results[k].buf

C8_Witness ==
  /\ call.entry = "conv_bias_relu" /\ call.status = "ok"
  /\ ncalls = 2
  /\ call.tensors[1].buf = <<1, 0>>
  /\ \E j \in Backends : Events[j].output.buf = <<2, 0>> /\ Events[j].z.buf = <<2, 0>>

\* C9 as stated: whenever the forward output size is positive, the
\* transpose_forward size formula with output_padding = 0 applied to it gives
\* back the input spatial size exactly.
C9_RoundTripExact ==
  probe.fn = "sizes" /\ probe.done /\ probe.out > 0 => probe.back = <<probe.in>>

\* what the floor of the forward size formula drops
Dropped ==
  (probe.in + 2 * probe.pad - probe.dilation * (probe.kernel - 1) - 1) % probe.stride

\* C9, amended: whenever the forward output size out = floor((in + 2*pad -
\* dilation*(kernel-1) - 1)/stride) + 1 is positive, the transpose_forward size
\* formula with output_padding = 0 applied to out gives in - ((in + 2*pad -
\* dilation*(kernel-1) - 1) mod stride): the input size exactly when stride
\* divides in + 2*pad - dilation*(kernel-1) - 1, as it always does for stride
\* 1, and otherwise a size smaller than in by less than stride; when that size
\* is negative the transposed call fails instead of returning a tensor.
C9_RoundTripUpToStride ==
  probe.fn = "sizes" /\ probe.done /\ probe.out > 0 =>
    /\ probe.out = (probe.in + 2 * probe.pad - probe.dilation * (probe.kernel - 1) - 1)
                     \div probe.stride + 1
    /\ probe.in - Dropped >= 0 => probe.back = <<probe.in - Dropped>>
    /\ probe.in - Dropped < 0 => probe.back = <<>>
    /\ probe.back = <<probe.in>> <=> Dropped = 0
    /\ probe.stride = 1 => probe.back = <<probe.in>>
    /\ Dropped < probe.stride

C9_Witness ==
  /\ probe.fn = "sizes" /\ probe.done /\ probe.out > 1
  /\ probe.stride > 1 /\ probe.pad > 0 /\ probe.dilation > 1 /\ probe.kernel > 1
  /\ probe.back = <<probe.in>>

NoNegative(args) == \A i \in DOMAIN args : args[i] >= 0

\* the output of the probe with every spatial size replaced by sp
OutputWith(sp) ==
  [sizes |-> [i \in DOMAIN probe.output.sizes |->
                IF i > 2 THEN sp ELSE probe.output.sizes[i]]]

IsBackend(e) == e.kind = "backend"

\* what the fused primitive computes from the arguments of a backend call:
\* relu(conv(input, weight) + bias + alpha * z), the add term vanishing when
\* its scale is zero
FusedValue(e) ==
  [conv |-> <<e.operands[1].data, e.operands[2].data, e.geom>>,
   bias |-> e.bias.data,
   add |-> IF e.alpha = 0 THEN <<>> ELSE <<e.alpha, e.z.data>>]

\* residuals of every layout, dtype and content a caller may bring
Residuals(r) ==
  {[TensorOf(G, "z", r, 2, 0) EXCEPT !.data = d] :
     G \in {{}, {<<"z", "cl">>}, {<<"z", "half">>}, {<<"z", "rank">>}},
     d \in {"data", "zeros", "uninitialized"}}

\* C12: conv_bias_relu with no bias is equivalent to conv_bias_add_relu with
\* alpha = 0 and an arbitrary residual: on the same input, weight, stride,
\* padding, dilation and groups both fail or both return an output of the same
\* shape, and both issue the same fused primitive on the same operands and
\* geometry with scale 0 and an all-zero bias of shape [out_channels], so the
\* values computed are equal.
C12_ReluIsAddReluAtZero ==
  call.entry = "conv_bias_relu" /\ ~defined(call.tensors[3]) =>
    \A z \in Residuals(call.r) :
      LET a == cudnn_convolution_add_relu(call.tensors[1], call.tensors[2], z, <<0>>,
                   Undefined, StrideOf(call.F, call.r), PaddingOf(call.F, call.r),
                   DilationOf(call.F, call.r), GroupsOf(call.F), ctx, build, call.g,
                   ncalls)
          ea == SelectSeq(a.events, IsBackend)
          er == SelectSeq(call.events, IsBackend)
      IN /\ a.status = call.status
         /\ call.status = "ok" =>
              /\ SameData(a.result, call.results[1])
              /\ a.result.fmt = call.results[1].fmt
              /\ a.result.data = call.results[1].data
         /\ Len(ea) = Len(er) /\ Len(er) <= 1
         /\ \A i \in DOMAIN er :
              /\ ea[i].prim = er[i].prim
              /\ ea[i].operands = er[i].operands
              /\ ea[i].geom = er[i].geom
              /\ ea[i].flags = er[i].flags
              /\ ea[i].alpha = 0 /\ er[i].alpha = 0
              /\ ea[i].bias = er[i].bias
              /\ er[i].bias.data = "zeros"
              /\ er[i].bias.sizes = <<call.results[1].sizes[2]>>
              /\ ea[i].output.sizes = er[i].output.sizes
              /\ FusedValue(ea[i]) = FusedValue(er[i])

C12_Witness ==
  /\ call.entry = "conv_bias_relu" /\ ~defined(call.tensors[3])
  /\ call.status = "ok" /\ Backends # {}
  /\ call.r = 4 /\ call.tensors[1].fmt = "ChannelsLast"

\* reading a dump back: the value written after a label
Field(text, label) ==
  Tail(text[CHOOSE i \in DOMAIN text : text[i][1] = label])

DigitValue(c) == CHOOSE d \in 0..9 : DigitChar[d + 1] = c

RECURSIVE ParseDigits(_)
ParseDigits(ts) ==
  IF ts = <<>> THEN 0
  ELSE ParseDigits(SubSeq(ts, 1, Len(ts) - 1)) * 10 + DigitValue(ts[Len(ts)])

ParseInt(ts) == IF Head(ts) = "-" THEN 0 - ParseDigits(Tail(ts)) ELSE ParseDigits(ts)

RECURSIVE SplitList(_, _)
SplitList(ts, cur) ==
  IF ts = <<>> THEN (IF cur = <<>> THEN <<>> ELSE <<cur>>)
  ELSE IF Head(ts) = "," THEN <<cur>> \o SplitList(Tail(ts), <<>>)
  ELSE IF Head(ts) = " " THEN SplitList(Tail(ts), cur)
  ELSE SplitList(Tail(ts), Append(cur, Head(ts)))

ParseArray(ts) ==
  LET parts == SplitList(SubSeq(ts, 2, Len(ts) - 1), <<>>)
  IN [i \in DOMAIN parts |-> ParseInt(parts[i])]

ParseBool(ts) == ts = <<"true">>

\* the first n entries are those of a, the others are zero
ZeroPadded(b, a) ==
  /\ Len(b) >= Len(a)
  /\ \A i \in DOMAIN b : b[i] = IF i <= Len(a) THEN a[i] ELSE 0

FusedAgain(other) ==
  IF call.entry = "conv_bias_relu"
    THEN cudnn_convolution_relu(call.tensors[1], call.tensors[2], call.tensors[3],
             StrideOf(call.F, call.r), PaddingOf(call.F, call.r),
             DilationOf(call.F, call.r), GroupsOf(call.F), other, build, call.g, ncalls)
    ELSE cudnn_convolution_add_relu(call.tensors[1], call.tensors[2], call.tensors[4],
             AlphaOf(call.F), call.tensors[3],
             StrideOf(call.F, call.r), PaddingOf(call.F, call.r),
             DilationOf(call.F, call.r), GroupsOf(call.F), other, build, call.g, ncalls)

\* C14: the backend call of conv_bias_relu and conv_bias_add_relu does not
\* depend on the process-wide benchmark and deterministic settings: made with
\* the same arguments and the same global allow-tf32 under any other
\* benchmark/deterministic settings, the call invokes the primitive with
\* identical arguments, always with benchmark = false, deterministic = false
\* and allow_tf32 the global value read during the call.
C14_FusedFlagsIndependent ==
  call.entry \in {"conv_bias_relu", "conv_bias_add_relu"} =>
    /\ \A i \in Backends :
         /\ Events[i].flags.benchmark = FALSE
         /\ Events[i].flags.deterministic = FALSE
         /\ Events[i].flags.allow_tf32 = ctx.allow_tf32
    /\ \A b \in BOOLEAN, d \in BOOLEAN :
         LET again == FusedAgain([allow_tf32 |-> ctx.allow_tf32, benchmark |-> b,
                                  deterministic |-> d])
         IN /\ again.status = call.status
            /\ again.events = call.events

C14_Witness ==
  /\ call.entry \in {"conv_bias_relu", "conv_bias_add_relu"}
  /\ call.status = "ok" /\ Backends # {}
  /\ ctx.benchmark /\ ctx.deterministic /\ ctx.allow_tf32
  /\ \A i \in Backends : Events[i].flags.allow_tf32

====
